---- MODULE Spec2Model ----
(***************************************************************************)
(* A model of the CRM backend: the GraphQL mutations of crm/schema.py      *)
(* (bulkCreateCustomers, createProduct, createOrder) over the tables of    *)
(* crm/models.py, and the scheduled jobs of crm/cron.py, crm/tasks.py and  *)
(* crm/cron_jobs/send_order_reminders.py.                                  *)
(*                                                                         *)
(* Storage.  Every ORM statement outside transaction.atomic() is committed *)
(* as it is issued (Django's autocommit; nothing in the sources turns on   *)
(* per-request transactions).  Inside transaction.atomic() the rows a call *)
(* writes stay private to it (pending) until the block exits; other calls  *)
(* read committed rows only.  A unique column is enforced by the storage   *)
(* layer at insert time.                                                   *)
(***************************************************************************)
EXTENDS Integers, Sequences, FiniteSets, TLC

VARIABLES
    customerTable,   \* committed Customer rows, in insertion order
    pc,              \* per bulk call: idle, check, create, commit, done
    inputs,          \* per bulk call: the inputs argument
    idx,             \* per bulk call: the 1-based row being processed (i+1)
    customers,       \* per bulk call: the local list customers
    errors,          \* per bulk call: the local list errors
    pending,         \* per bulk call: rows inserted inside the open atomic block
    needs_rollback,  \* per bulk call: the connection's needs_rollback flag
    outcome,         \* per bulk call: none, returned, raised
    before           \* per bulk call: customerTable when the call started

bulkVars == <<customerTable, pc, inputs, idx, customers, errors, pending,
              needs_rollback, outcome, before>>

\* createProduct / createOrder
VARIABLES
    productTable,    \* committed Product rows; a row's id is its position
    orderTable,      \* committed Order rows, each with its products association
    presult,         \* what the last createProduct call answered
    opc,             \* the createOrder call: idle, count, missing, insert, set, save, done
    oinput,          \* the createOrder call's input
    order_pk,        \* the local order: the id of the row line 185 inserted
    total,           \* the local order.total_amount computed at lines 192-193
    oresult,         \* what the createOrder call answered
    obefore          \* orderTable and productTable when the call started

orderVars == <<productTable, orderTable, presult, opc, oinput, order_pk, total,
               oresult, obefore>>

\* scheduled jobs
VARIABLES
    logs,            \* per job: the lines of its log file
    jobRun,          \* the last job run: the job, the endpoint's answer, how it ended
    runs             \* scheduled runs so far

jobVars == <<logs, jobRun, runs>>

vars == <<bulkVars, orderVars, jobVars>>

(***************************************************************************)
(* Bounds                                                                  *)
(***************************************************************************)
MaxBatch == 2

Workers == {1, 2}

(***************************************************************************)
(* Customer inputs.  A phone is kept as its prefix and its length, the two *)
(* things the mutation looks at.                                           *)
(***************************************************************************)
WellFormedEmails == {"alice@example.com", "bob@example.com"}

CustomerInputs ==
    { [email |-> "alice@example.com", phone |-> [prefix |-> "+233", len |-> 13]],
      [email |-> "bob@example.com",   phone |-> [prefix |-> "+233", len |-> 13]],
      [email |-> "alice@example.com", phone |-> [prefix |-> "+1",   len |-> 11]],
      [email |-> "bob@example.com",   phone |-> [prefix |-> "+233", len |-> 8]],
      [email |-> "not-an-email",      phone |-> [prefix |-> "+233", len |-> 13]] }

RECURSIVE SeqsUpTo(_, _)
SeqsUpTo(S, n) ==
    IF n = 0 THEN { <<>> }
    ELSE LET shorter == SeqsUpTo(S, n - 1)
         IN  shorter \cup { Append(s, x) : s \in shorter, x \in S }

Batches == SeqsUpTo(CustomerInputs, MaxBatch)

\* validate_email(input.email): raises ValidationError on a malformed address
validate_email(email) == email \in WellFormedEmails

\* not input.phone.startswith("+233") or len(input.phone) < 10
PhoneRejected(phone) == phone.prefix # "+233" \/ phone.len < 10

Emails(rows) == { rows[k].email : k \in 1..Len(rows) }

\* The lookup as it would be if it missed the rows of the open transaction
EmailExistsCommittedOnly(w, email) == email \in Emails(customerTable)

\* Customer.objects.filter(email=...).exists(): committed rows and the rows
\* this call has inserted in its own open transaction
EmailExists(w, email) == email \in Emails(customerTable \o pending[w])

\* Customer.email is unique=True: the insert of a second row with the same
\* email is refused, whoever wrote the first one and whether or not the
\* writer read it before
UniqueViolation(w, email) == email \in Emails(customerTable \o pending[w])

\* The row's key is held by another call's uncommitted insert
HeldByOther(w, email) ==
    \E v \in Workers \ {w} : email \in Emails(pending[v])

\* w is inside Customer.objects.create, waiting for the holder of the key to end
Waiting(w) ==
    /\ pc[w] = "create"
    /\ ~UniqueViolation(w, inputs[w][idx[w]].email)
    /\ HeldByOther(w, inputs[w][idx[w]].email)

\* Two calls each wait for a key the other holds: the storage layer ends the wait
\* of the one that closes the cycle with an error
Deadlocked(w) ==
    /\ Waiting(w)
    /\ \E v \in Workers \ {w} :
           /\ inputs[w][idx[w]].email \in Emails(pending[v])
           /\ Waiting(v)
           /\ inputs[v][idx[v]].email \in Emails(pending[w])

AfterRow(w) == IF idx[w] >= Len(inputs[w]) THEN "commit" ELSE "check"

ErrorLine(row, reason) == [row |-> row, reason |-> reason]

InitCalls ==
    /\ pc = [w \in Workers |-> "idle"]
    /\ inputs = [w \in Workers |-> <<>>]
    /\ idx = [w \in Workers |-> 0]
    /\ customers = [w \in Workers |-> <<>>]
    /\ errors = [w \in Workers |-> <<>>]
    /\ pending = [w \in Workers |-> <<>>]
    /\ needs_rollback = [w \in Workers |-> FALSE]
    /\ outcome = [w \in Workers |-> "none"]
    /\ before = [w \in Workers |-> <<>>]

\* mutate is entered: customers = [], errors = [], transaction.atomic() opens
Begin(w, b) ==
    /\ pc[w] = "idle"
    /\ inputs' = [inputs EXCEPT ![w] = b]
    /\ idx' = [idx EXCEPT ![w] = 1]
    /\ pc' = [pc EXCEPT ![w] = IF Len(b) = 0 THEN "commit" ELSE "check"]
    /\ before' = [before EXCEPT ![w] = customerTable]
    /\ UNCHANGED <<customerTable, customers, errors, pending, needs_rollback, outcome>>
    /\ UNCHANGED <<orderVars, jobVars>>

\* Lines 108-116 and, when one of them raises, 124-126: the savepoint, the
\* duplicate lookup, validate_email and the phone rule.  Nothing was written
\* since the savepoint, so rolling back to it leaves pending as it is, and
\* needs_rollback is FALSE, so savepoint_rollback goes through.
CheckItem(w) ==
    /\ pc[w] = "check"
    /\ LET input == inputs[w][idx[w]]
           reason == IF EmailExists(w, input.email) THEN "Duplicate email"
                     ELSE IF ~validate_email(input.email) THEN "Enter a valid email address."
                     ELSE IF PhoneRejected(input.phone) THEN "Phone number must start with +233 and be valid."
                     ELSE "none"
       IN  IF reason = "none"
           THEN /\ pc' = [pc EXCEPT ![w] = "create"]
                /\ UNCHANGED <<errors, idx>>
           ELSE /\ errors' = [errors EXCEPT ![w] = Append(@, ErrorLine(idx[w], reason))]
                /\ idx' = [idx EXCEPT ![w] = @ + 1]
                /\ pc' = [pc EXCEPT ![w] = AfterRow(w)]
    /\ UNCHANGED <<customerTable, inputs, customers, pending, needs_rollback, outcome, before>>
    /\ UNCHANGED <<orderVars, jobVars>>

\* Lines 118-128.  Customer.objects.create either inserts the row (then
\* customers.append and savepoint_commit) or raises a database error.  Model.save
\* marks the connection needs_rollback when its query fails inside an atomic
\* block; line 125 records the error, and line 126's savepoint_rollback has to
\* run a query on a connection so marked, which Django refuses with
\* TransactionManagementError.  That exception is raised inside the except
\* clause, leaves the with block, and atomic() rolls the whole transaction back:
\* the call ends with an exception and returns neither list.
CreateItem(w) ==
    /\ pc[w] = "create"
    /\ ~Waiting(w) \/ Deadlocked(w)
    /\ LET input == inputs[w][idx[w]]
       IN  IF UniqueViolation(w, input.email) \/ Deadlocked(w)
           THEN /\ needs_rollback' = [needs_rollback EXCEPT ![w] = TRUE]
                /\ errors' = [errors EXCEPT ![w] = Append(@, ErrorLine(idx[w], "database error"))]
                /\ pending' = [pending EXCEPT ![w] = <<>>]
                /\ outcome' = [outcome EXCEPT ![w] = "raised"]
                /\ pc' = [pc EXCEPT ![w] = "done"]
                /\ UNCHANGED <<customers, idx>>
           ELSE /\ pending' = [pending EXCEPT ![w] = Append(@, input)]
                /\ customers' = [customers EXCEPT ![w] = Append(@, input)]
                /\ idx' = [idx EXCEPT ![w] = @ + 1]
                /\ pc' = [pc EXCEPT ![w] = AfterRow(w)]
                /\ UNCHANGED <<errors, needs_rollback, outcome>>
    /\ UNCHANGED <<customerTable, inputs, before>>
    /\ UNCHANGED <<orderVars, jobVars>>

\* The with block ends normally: the transaction commits, lines 130-134 return
Commit(w) ==
    /\ pc[w] = "commit"
    /\ customerTable' = customerTable \o pending[w]
    /\ pending' = [pending EXCEPT ![w] = <<>>]
    /\ outcome' = [outcome EXCEPT ![w] = "returned"]
    /\ pc' = [pc EXCEPT ![w] = "done"]
    /\ UNCHANGED <<inputs, idx, customers, errors, needs_rollback, before>>
    /\ UNCHANGED <<orderVars, jobVars>>

\* The response is delivered and the worker takes the next request on a fresh
\* connection state
Return(w) ==
    /\ pc[w] = "done"
    /\ pc' = [pc EXCEPT ![w] = "idle"]
    /\ inputs' = [inputs EXCEPT ![w] = <<>>]
    /\ idx' = [idx EXCEPT ![w] = 0]
    /\ customers' = [customers EXCEPT ![w] = <<>>]
    /\ errors' = [errors EXCEPT ![w] = <<>>]
    /\ needs_rollback' = [needs_rollback EXCEPT ![w] = FALSE]
    /\ outcome' = [outcome EXCEPT ![w] = "none"]
    /\ before' = [before EXCEPT ![w] = <<>>]
    /\ UNCHANGED <<customerTable, pending>>
    /\ UNCHANGED <<orderVars, jobVars>>

\* A worker takes a call only while no other call is in flight
BeginSerial(w, b) ==
    /\ \A v \in Workers \ {w} : pc[v] = "idle"
    /\ Begin(w, b)


(***************************************************************************)
(* createProduct and createOrder.  A Decimal is kept as a whole number of  *)
(* thousandths, so that quantize(Decimal("0.01")) has something to round.  *)
(***************************************************************************)
MaxProducts == 2
MaxOrders == 2
MaxIds == 2

\* Decimal.quantize(Decimal("0.01")) under the default context: round half even
\* to a multiple of ten thousandths
Quantize(m) ==
    LET sign == IF m < 0 THEN -1 ELSE 1
        a == sign * m
        q == a \div 10
        r == a % 10
        up == r > 5 \/ (r = 5 /\ q % 2 = 1)
    IN  sign * 10 * (IF up THEN q + 1 ELSE q)

\* ProductInput.price: text that Decimal() refuses, or a decimal in thousandths
PriceInputs ==
    { [decimal |-> FALSE, m |-> 0] } \cup
    { [decimal |-> TRUE, m |-> v] : v \in {-10, 0, 4, 15, 20, 1000, 9990} }

\* ProductInput.stock: absent (None) or an Int
StockInputs == { [given |-> FALSE, n |-> 0], [given |-> TRUE, n |-> -1],
                 [given |-> TRUE, n |-> 5], [given |-> TRUE, n |-> 10] }

ProductInputs == { [price |-> p, stock |-> s] : p \in PriceInputs, s \in StockInputs }

\* The products an order call is tried against: priced 0.02 and 9.99
OrderProductInputs ==
    { [price |-> [decimal |-> TRUE, m |-> v], stock |-> [given |-> FALSE, n |-> 0]] :
          v \in {20, 9990} }

\* CreateProduct.mutate, lines 145-163: the whole call is one statement on storage
ProductAnswer(input) ==
    IF ~input.price.decimal THEN "Price must be a valid decimal."
    ELSE IF input.price.m <= 0 THEN "Price must be positive."
    ELSE IF (IF input.stock.given THEN input.stock.n ELSE 0) < 0 THEN "Stock cannot be negative."
    ELSE "Product created successfully."

ProductRow(input) ==
    [price |-> Quantize(input.price.m),
     stock |-> IF input.stock.given THEN input.stock.n ELSE 0]

CreateProduct(input) ==
    /\ Len(productTable) < MaxProducts
    /\ presult' = ProductAnswer(input)
    /\ productTable' = IF ProductAnswer(input) = "Product created successfully."
                       THEN Append(productTable, ProductRow(input))
                       ELSE productTable
    /\ UNCHANGED <<orderTable, opc, oinput, order_pk, total, oresult, obefore>>
    /\ UNCHANGED <<bulkVars, jobVars>>

(***************************************************************************)
(* createOrder.  A product id arrives as text (graphene.ID): n is the      *)
(* number it reads as and pad says whether it is written with a leading    *)
(* zero ("01"), which int() accepts and str() never produces.              *)
(***************************************************************************)
IdInputs ==
    { [n |-> k, pad |-> FALSE] : k \in 1..(MaxProducts + 1) } \cup { [n |-> 1, pad |-> TRUE] }

\* The id__in lookup turns each id into a number: int("01") = 1
ParseId(t) == t.n

\* str(p.id)
IdText(p) == [n |-> p, pad |-> FALSE]

OrderInputs ==
    { [customer_id |-> c, product_ids |-> ids] :
          c \in {1, 2}, ids \in SeqsUpTo(IdInputs, MaxIds) }

Range(seq) == { seq[k] : k \in 1..Len(seq) }

\* Product.objects.filter(id__in=input.product_ids), evaluated now
Products(ids) == { p \in 1..Len(productTable) : p \in { ParseId(t) : t \in Range(ids) } }

\* set(input.product_ids) - set(str(p.id) for p in products)
missing_ids(ids) == Range(ids) \ { IdText(p) : p \in Products(ids) }

RECURSIVE SumPrices(_)
SumPrices(ps) ==
    IF ps = {} THEN 0
    ELSE LET p == CHOOSE x \in ps : TRUE
         IN  productTable[p].price + SumPrices(ps \ {p})

NoAnswer == [kind |-> "none", message |-> "", ids |-> {}]

\* Lines 175-178: Customer.objects.get(pk=input.customer_id)
OrderBegin(input) ==
    /\ opc = "idle"
    /\ Len(orderTable) < MaxOrders
    /\ oinput' = input
    /\ obefore' = [orders |-> orderTable, products |-> productTable]
    /\ IF input.customer_id \in 1..Len(customerTable)
       THEN /\ opc' = "count"
            /\ UNCHANGED oresult
       ELSE /\ opc' = "done"
            /\ oresult' = [kind |-> "error", message |-> "Customer does not exist.", ids |-> {}]
    /\ UNCHANGED <<productTable, orderTable, presult, order_pk, total>>
    /\ UNCHANGED <<bulkVars, jobVars>>

\* Lines 180-181: products.count() != len(input.product_ids)
OrderCount ==
    /\ opc = "count"
    /\ opc' = IF Cardinality(Products(oinput.product_ids)) # Len(oinput.product_ids)
              THEN "missing" ELSE "insert"
    /\ UNCHANGED <<productTable, orderTable, presult, oinput, order_pk, total, oresult, obefore>>
    /\ UNCHANGED <<bulkVars, jobVars>>

\* Lines 182-183: the queryset is read again for the message
OrderMissing ==
    /\ opc = "missing"
    /\ oresult' = [kind |-> "error", message |-> "Invalid product IDs",
                   ids |-> missing_ids(oinput.product_ids)]
    /\ opc' = "done"
    /\ UNCHANGED <<productTable, orderTable, presult, oinput, order_pk, total, obefore>>
    /\ UNCHANGED <<bulkVars, jobVars>>

\* Lines 185-189: Order.objects.create(..., total_amount=Decimal("0.00"))
OrderInsert ==
    /\ opc = "insert"
    /\ orderTable' = Append(orderTable,
           [customer |-> oinput.customer_id, total_amount |-> 0, products |-> {}])
    /\ order_pk' = Len(orderTable) + 1
    /\ opc' = "set"
    /\ UNCHANGED <<productTable, presult, oinput, total, oresult, obefore>>
    /\ UNCHANGED <<bulkVars, jobVars>>

\* The total as it would be if only one product's price were taken
OrderTotalOfOne(ps) == Quantize(productTable[CHOOSE p \in ps : TRUE].price)

\* sum([p.price for p in products]).quantize(...): sum([]) is the int 0, which has
\* no quantize, so the empty list ends in AttributeError
OrderTotal(ps) == Quantize(SumPrices(ps))

\* Lines 190-193: order.products.set(products) reads the queryset and writes the
\* association; the total is then computed from the rows just read
OrderSetProducts ==
    /\ opc = "set"
    /\ LET ps == Products(oinput.product_ids)
       IN  /\ orderTable' = [orderTable EXCEPT ![order_pk].products = ps]
           /\ IF ps = {}
              THEN /\ oresult' = [kind |-> "error",
                                  message |-> "'int' object has no attribute 'quantize'",
                                  ids |-> {}]
                   /\ opc' = "done"
                   /\ UNCHANGED total
              ELSE /\ total' = OrderTotal(ps)
                   /\ opc' = "save"
                   /\ UNCHANGED oresult
    /\ UNCHANGED <<productTable, presult, oinput, order_pk, obefore>>
    /\ UNCHANGED <<bulkVars, jobVars>>

\* Lines 194-196: order.save() and the answer
OrderSave ==
    /\ opc = "save"
    /\ orderTable' = [orderTable EXCEPT ![order_pk].total_amount = total]
    /\ oresult' = [kind |-> "order", message |-> "Order created successfully.", ids |-> {}]
    /\ opc' = "done"
    /\ UNCHANGED <<productTable, presult, oinput, order_pk, total, obefore>>
    /\ UNCHANGED <<bulkVars, jobVars>>

\* The answer is delivered
OrderReturn ==
    /\ opc = "done"
    /\ opc' = "idle"
    /\ oinput' = [customer_id |-> 0, product_ids |-> <<>>]
    /\ order_pk' = 0
    /\ total' = 0
    /\ oresult' = NoAnswer
    /\ obefore' = [orders |-> <<>>, products |-> <<>>]
    /\ UNCHANGED <<productTable, orderTable, presult>>
    /\ UNCHANGED <<bulkVars, jobVars>>

InitOrderVars ==
    /\ productTable = <<>>
    /\ orderTable = <<>>
    /\ presult = "none"
    /\ opc = "idle"
    /\ oinput = [customer_id |-> 0, product_ids |-> <<>>]
    /\ order_pk = 0
    /\ total = 0
    /\ oresult = NoAnswer
    /\ obefore = [orders |-> <<>>, products |-> <<>>]


(***************************************************************************)
(* Scheduled jobs.  A log file is the sequence of its lines; a line is     *)
(* kept as what it records.  The endpoint's answer to a job is unreachable *)
(* (the transport gives up after its retries and client.execute raises),   *)
(* errors (a GraphQL error answer, which client.execute raises too), or    *)
(* data carrying n items (restocked products, orders).                     *)
(***************************************************************************)
MaxRuns == 3
MaxItems == 2

Jobs == {"update_low_stock", "generate_crm_report", "send_order_reminders"}

Answers ==
    { [kind |-> "unreachable", success |-> FALSE, n |-> 0],
      [kind |-> "errors", success |-> FALSE, n |-> 0] } \cup
    { [kind |-> "data", success |-> b, n |-> k] : b \in BOOLEAN, k \in 0..MaxItems }

Raises(answer) == answer.kind # "data"

Repeat(line, n) == [k \in 1..n |-> line]

\* crm/cron.py, lines 12-50: message as the lines it holds
LowStockMessage(answer) ==
    <<"Low stock update run.">> \o
    (IF Raises(answer) THEN <<"GraphQL mutation failed">>
     ELSE IF answer.success THEN Repeat("restocked", answer.n) \o <<"message">>
     ELSE <<>>)

\* crm/tasks.py, lines 15-46: message is one line either way
ReportMessage(answer) ==
    IF Raises(answer) THEN <<"Report: Failed to generate report">>
    ELSE <<"Report: customers, orders, revenue">>

\* crm/cron_jobs/send_order_reminders.py, lines 52-57: one line per order
ReminderLines(answer) == Repeat("Order ID - Customer Email", answer.n)

\* update_low_stock(): the message is appended whatever happened
UpdateLowStock(answer) ==
    /\ runs < MaxRuns
    /\ runs' = runs + 1
    /\ logs' = [logs EXCEPT !["update_low_stock"] = @ \o LowStockMessage(answer)]
    /\ jobRun' = [job |-> "update_low_stock", answer |-> answer, exit |-> "returned",
                  before |-> Len(logs["update_low_stock"])]
    /\ UNCHANGED <<bulkVars, orderVars>>

\* generate_crm_report()
GenerateCrmReport(answer) ==
    /\ runs < MaxRuns
    /\ runs' = runs + 1
    /\ logs' = [logs EXCEPT !["generate_crm_report"] = @ \o ReportMessage(answer)]
    /\ jobRun' = [job |-> "generate_crm_report", answer |-> answer, exit |-> "returned",
                  before |-> Len(logs["generate_crm_report"])]
    /\ UNCHANGED <<bulkVars, orderVars>>

\* send_order_reminders main(): the except clause writes to stderr and calls
\* sys.exit(1); the log file is opened only after the query answered
SendOrderReminders(answer) ==
    /\ runs < MaxRuns
    /\ runs' = runs + 1
    /\ logs' = IF Raises(answer) THEN logs
               ELSE [logs EXCEPT !["send_order_reminders"] = @ \o ReminderLines(answer)]
    /\ jobRun' = [job |-> "send_order_reminders", answer |-> answer,
                  exit |-> IF Raises(answer) THEN "sys.exit(1)" ELSE "returned",
                  before |-> Len(logs["send_order_reminders"])]
    /\ UNCHANGED <<bulkVars, orderVars>>

InitJobVars ==
    /\ logs = [j \in Jobs |-> <<>>]
    /\ jobRun = [job |-> "none", answer |-> [kind |-> "data", success |-> FALSE, n |-> 0],
                 exit |-> "returned", before |-> 0]
    /\ runs = 0

(***************************************************************************)
(* Specifications                                                          *)
(***************************************************************************)
\* An empty database
InitBulk ==
    /\ customerTable = <<>>
    /\ InitCalls
    /\ InitOrderVars
    /\ InitJobVars

\* A database holding one customer, created by an earlier call
InitOrder ==
    /\ customerTable = << [email |-> "alice@example.com", phone |-> [prefix |-> "+233", len |-> 13]] >>
    /\ InitCalls
    /\ InitOrderVars
    /\ InitJobVars

\* bulkCreateCustomers calls on two request workers
NextBulk ==
    \E w \in Workers :
        \/ \E b \in Batches : Begin(w, b)
        \/ CheckItem(w)
        \/ CreateItem(w)
        \/ Commit(w)
        \/ Return(w)

SpecBulk == InitBulk /\ [][NextBulk]_vars

\* bulkCreateCustomers calls, one at a time
NextBulkSerial ==
    \E w \in Workers :
        \/ \E b \in Batches : BeginSerial(w, b)
        \/ CheckItem(w)
        \/ CreateItem(w)
        \/ Commit(w)
        \/ Return(w)

SpecBulkSerial == InitBulk /\ [][NextBulkSerial]_vars

\* createProduct calls
NextProduct == \E input \in ProductInputs : CreateProduct(input)

SpecProduct == InitBulk /\ [][NextProduct]_vars

\* A createOrder call, with createProduct calls arriving at any point of it
NextOrder ==
    \/ \E input \in OrderProductInputs : CreateProduct(input)
    \/ \E input \in OrderInputs : OrderBegin(input)
    \/ OrderCount
    \/ OrderMissing
    \/ OrderInsert
    \/ OrderSetProducts
    \/ OrderSave
    \/ OrderReturn

SpecOrder == InitOrder /\ [][NextOrder]_vars

\* Scheduled runs of the three jobs
NextJobs ==
    \E answer \in Answers :
        \/ UpdateLowStock(answer)
        \/ GenerateCrmReport(answer)
        \/ SendOrderReminders(answer)

SpecJobs == InitBulk /\ [][NextJobs]_vars

Next == NextBulk \/ NextProduct \/ NextOrder \/ NextJobs

Spec == InitOrder /\ [][Next]_vars


(***************************************************************************)
(* Properties                                                              *)
(***************************************************************************)
WellFormed(input) == validate_email(input.email) /\ ~PhoneRejected(input.phone)

AllWellFormed(b) == \A k \in 1..Len(b) : WellFormed(b[k])

\* The items of b from row k on whose email is new, given the emails seen so far
RECURSIVE Accepted(_, _, _)
Accepted(seen, b, k) ==
    IF k > Len(b) THEN <<>>
    ELSE IF b[k].email \in seen THEN Accepted(seen, b, k + 1)
    ELSE <<b[k]>> \o Accepted(seen \cup {b[k].email}, b, k + 1)

\* One error line per duplicate item of b from row k on, with its row number
RECURSIVE Refused(_, _, _)
Refused(seen, b, k) ==
    IF k > Len(b) THEN <<>>
    ELSE IF b[k].email \in seen
         THEN <<ErrorLine(k, "Duplicate email")>> \o Refused(seen, b, k + 1)
    ELSE Refused(seen \cup {b[k].email}, b, k + 1)

\* C1: a finished bulkCreateCustomers call whose items are all well formed (each
\* one valid, or a duplicate of a stored email or of an earlier item) returns
\* exactly the valid items in input order, reports exactly one error per
\* duplicate in input order under its 1-based row number, and leaves the stored
\* customers equal to the previous ones followed by the returned ones.
C1_BulkCommitsValidReportsDuplicates ==
    \A w \in Workers :
        (pc[w] = "done" /\ AllWellFormed(inputs[w])) =>
            /\ outcome[w] = "returned"
            /\ customers[w] = Accepted(Emails(before[w]), inputs[w], 1)
            /\ errors[w] = Refused(Emails(before[w]), inputs[w], 1)
            /\ customerTable = before[w] \o customers[w]

\* A call over a non-empty table that returned a customer and an error
C1_Witness ==
    \E w \in Workers :
        /\ pc[w] = "done"
        /\ AllWellFormed(inputs[w])
        /\ before[w] # <<>>
        /\ Len(customers[w]) >= 1
        /\ Len(errors[w]) >= 1

Count(rows, email) == Cardinality({ k \in 1..Len(rows) : rows[k].email = email })

\* C2: when two bulkCreateCustomers calls that both started before the email was
\* stored each hold one item with that email, then once both have ended exactly
\* one customer with the email is committed, the two calls together report
\* exactly one error, and both calls returned.
C2_RaceEndsInOneItemFailure ==
    \A e \in WellFormedEmails :
        ( /\ \A w \in Workers :
                 /\ pc[w] = "done"
                 /\ Len(inputs[w]) = 1
                 /\ inputs[w][1].email = e
                 /\ WellFormed(inputs[w][1])
                 /\ e \notin Emails(before[w]) )
        => /\ Count(customerTable, e) = 1
           /\ Len(errors[1]) + Len(errors[2]) = 1
           /\ \A w \in Workers : outcome[w] = "returned"

CustomerExists == oinput.customer_id \in 1..Len(customerTable)

\* C3: a createOrder call for an existing customer with an empty product id list
\* ends in an error and leaves the stored orders as they were.
C3_EmptyOrderPersistsNothing ==
    (opc = "done" /\ CustomerExists /\ oinput.product_ids = <<>>) =>
        /\ oresult.kind = "error"
        /\ orderTable = obefore.orders

\* The exact sum of the prices of a set of stored products
RECURSIVE PriceSum(_)
PriceSum(ps) ==
    IF ps = {} THEN 0
    ELSE LET top == CHOOSE x \in ps : \A y \in ps : y <= x
         IN  PriceSum(ps \ {top}) + productTable[top].price

\* C4: every stored order row, in every state another request can read, has its
\* products attached and its total_amount equal to the sum of their prices.
C4_OrderNeverPartial ==
    \A k \in 1..Len(orderTable) :
        /\ orderTable[k].products # {}
        /\ orderTable[k].total_amount = PriceSum(orderTable[k].products)

Stored(t) == ParseId(t) \in 1..Len(productTable)

\* C5: a createOrder call for an existing customer in which some requested id has
\* no stored product ends in the not-found error listing exactly the requested
\* ids that have no stored product, and leaves the stored orders as they were.
C5_MissingIdsListedExactly ==
    ( /\ opc = "done"
      /\ CustomerExists
      /\ productTable = obefore.products
      /\ \E t \in Range(oinput.product_ids) : ~Stored(t) )
    => /\ oresult.kind = "error"
       /\ oresult.message = "Invalid product IDs"
       /\ oresult.ids = { t \in Range(oinput.product_ids) : ~Stored(t) }
       /\ orderTable = obefore.orders

\* C6: after a createOrder call that returned an order, the stored order's
\* total_amount is the exact sum of the prices of the products associated with
\* it, at scale 2.
C6_TotalIsExactSum ==
    (opc = "done" /\ oresult.kind = "order") =>
        /\ orderTable[order_pk].total_amount = PriceSum(orderTable[order_pk].products)
        /\ orderTable[order_pk].total_amount % 10 = 0
        /\ orderTable[order_pk].products = { ParseId(t) : t \in Range(oinput.product_ids) }

\* An order of the products priced 9.99 and 0.02, totalling 10.01
C6_Witness ==
    /\ opc = "done"
    /\ oresult.kind = "order"
    /\ { productTable[p].price : p \in orderTable[order_pk].products } = {9990, 20}
    /\ orderTable[order_pk].total_amount = 10010

FailureLines == {"GraphQL mutation failed", "Report: Failed to generate report"}

\* The lines the last run added to its log
Added == SubSeq(logs[jobRun.job], jobRun.before + 1, Len(logs[jobRun.job]))

\* C7: a run of a scheduled job whose call raised has appended exactly one line
\* recording the failure and has returned normally.
C7_FailedRunLogsAndReturns ==
    (jobRun.job # "none" /\ Raises(jobRun.answer)) =>
        /\ jobRun.exit = "returned"
        /\ Cardinality({ k \in 1..Len(Added) : Added[k] \in FailureLines }) = 1

\* C8: every run of a scheduled job adds exactly one line to its log.
C8_OneLinePerRun ==
    jobRun.job # "none" => Len(logs[jobRun.job]) = jobRun.before + 1

\* C9: every stored product has a price strictly greater than zero at scale 2 and
\* a non-negative stock.
C9_StoredProductsValid ==
    \A p \in 1..Len(productTable) :
        /\ productTable[p].price > 0
        /\ productTable[p].price % 10 = 0
        /\ productTable[p].stock >= 0

\* C10: a createOrder call for an existing customer whose ids all have a stored
\* product, one of them requested more than once, returns an order associated
\* with each distinct product once and totalling each price once.
C10_RepeatedIdsCollapse ==
    ( /\ opc = "done"
      /\ CustomerExists
      /\ \A t \in Range(oinput.product_ids) : ParseId(t) \in 1..Len(obefore.products)
      /\ Cardinality({ ParseId(t) : t \in Range(oinput.product_ids) }) < Len(oinput.product_ids) )
    => /\ oresult.kind = "order"
       /\ orderTable[order_pk].products = { ParseId(t) : t \in Range(oinput.product_ids) }
       /\ orderTable[order_pk].total_amount = PriceSum(orderTable[order_pk].products)

====
